---- MODULE Spec2Model ----
(***************************************************************************)
(* The Redirx matching pipeline (src/src/redirx/stages.py, lib.py) and its *)
(* caller (src/backend/services/pipeline_runner.py) as a state machine.    *)
(*                                                                         *)
(* Scores are hundredths (1.0 is 100, 0.85 is 85).  A URL is a record of   *)
(* its host, the part of its path before the last dot (stem) and the part  *)
(* from the last dot on (ext, "" when the path has no dot).  An HTML       *)
(* document is a record of a body identifier and its length in characters; *)
(* two documents are byte-identical exactly when the records are equal.    *)
(***************************************************************************)
EXTENDS Integers, Sequences, FiniteSets, Bags, TLC

VARIABLES
    run_input,          \* the (old_urls, new_urls) the caller hands to Pipeline
    stages_arg,         \* Pipeline.__init__'s stages argument ("default" is None)
    session_id,         \* the session_id the stages were built with
    pipeline_session_id, \* Pipeline.session_id
    stages,             \* Pipeline.__stages
    index,              \* Pipeline.__index
    state,              \* Pipeline.state: [old, new, mappings]
    run,                \* where the caller's run is: new, running, returned, raised
    fetched,            \* URLs for which WebPage.scrape issued session.get
    db_mappings,        \* table url_mappings (a bag of rows)
    db_embeddings,      \* table webpage_embeddings (rows [session_id, url, site_type])
    matched_pairs,      \* ExactUrlMatchStage.execute's matched_pairs
    pairing,            \* PairingStage.execute's locals while it runs (found: the
                        \* last answer of find_similar_pages)
    network,            \* what session.get may do in this run (a set of outcomes)
    responses,          \* what session.get did for each URL of WebScraperStage
    api_key,            \* Config.OPENAI_API_KEY is set
    embed,              \* EmbedStage.execute's position and its tasks
    faults,             \* failures the provider and the storage still have in store
    write_failures,     \* storage writes rejected so far
    session_status,     \* column status of the run's row of migration_sessions
    similarities        \* the similarity values match_pages reports in this run

vars == <<run_input, stages_arg, session_id, pipeline_session_id, stages, index, state, run, fetched,
          db_mappings, db_embeddings, matched_pairs, pairing, network, responses,
          api_key, embed, faults, write_failures, session_status, similarities>>

-----------------------------------------------------------------------------
(* Bounds of the model *)

\* most URLs handed to a run, both lists together (Spec)
MaxUrls == 3
\* longest old / new page list handed to HtmlPruneStage alone (SpecHtml)
MaxOldPages == 3
MaxNewPages == 2
\* longest old / new page list handed to the page stages (SpecPairing)
MaxPairOld == 3
MaxPairNew == 2
\* longest old / new page list handed to HtmlPruneStage and EmbedStage, and
\* the failures the provider and the storage have in store (SpecEmbed)
MaxEmbedOld == 2
MaxEmbedNew == 1
MaxProviderFaults == 3
MaxStorageFaults == 1
\* longest old / new page list handed to EmbedStage alone, and the failures
\* the provider has in store (SpecBatch)
MaxBatchOld == 11
MaxBatchNew == 1
MaxBatchFaults == 1
\* most URLs handed to WebScraperStage alone, both lists together (SpecScrape)
MaxScrapeUrls == 2
\* most URLs handed to UrlPruneStage alone, both lists together (SpecUrlPrune)
MaxPruneUrls == 2
\* longest old / new page list handed to the page stages of a Pipeline built
\* with a session id (SpecSession)
MaxSessionOld == 2
MaxSessionNew == 1
\* most URLs handed to BlogPruneStage alone, both lists together (SpecBlogPrune)
MaxBlogUrls == 2
\* longest old / new page list handed to the page stages on sites of
\* identical pages (SpecReview)
MaxReviewOld == 3
MaxReviewNew == 3

-----------------------------------------------------------------------------
(* Program constants *)

HIGH_CONFIDENCE_THRESHOLD == 85
MEDIUM_CONFIDENCE_THRESHOLD == 70
AMBIGUITY_GAP_THRESHOLD == 10
\* the literal 0.9 of _create_mapping
SEMANTIC_HIGH_SCORE == 90
\* confidence_score=1.0 of the exact stages
EXACT_CONFIDENCE == 100
MIN_HTML_LENGTH == 100
\* match_count=5 of find_similar_pages
MATCH_COUNT == 5
\* max_retries=3 of _generate_embedding_with_retry
MAX_RETRIES == 3
\* batch_size = 10 of _process_pages
BATCH_SIZE == 10

\* Python's None where a string is expected, and where an object is
None == "None"
NoObject == [none |-> TRUE]
NoPairing == [pc |-> "idle"]
NoEmbed == [pc |-> "idle"]
NoResponses == [old |-> <<>>, new |-> <<>>]
NoFaults == [provider |-> 0, storage |-> 0]

-----------------------------------------------------------------------------
(* Generic helpers *)

Range(s) == {s[i] : i \in 1..Len(s)}

SeqsUpTo(S, n) == UNION {[1..k -> S] : k \in 0..n}

Min(a, b) == IF a < b THEN a ELSE b

-----------------------------------------------------------------------------
(* URLs *)

Url(h, s, e) == [host |-> h, stem |-> s, ext |-> e]

\* urlparse(url).path
UrlPath(url) == [stem |-> url.stem, ext |-> url.ext]

OldUrlSet == {Url("a.com", "/x", ".html"), Url("a.com", "/y", ""),
              Url("a.com", "/s", ".css")}
NewUrlSet == {Url("b.com", "/x", ".html"), Url("b.com", "/z", ""),
              Url("c.com", "/x", ".html")}

BLOCKED_EXTENSIONS ==
    {".css", ".js", ".json", ".xml",
     ".png", ".jpg", ".jpeg", ".gif", ".svg", ".ico", ".webp",
     ".woff", ".woff2", ".ttf", ".eot", ".otf",
     ".pdf", ".zip", ".tar", ".gz", ".rar",
     ".mp4", ".mp3", ".avi", ".mov", ".wav",
     ".txt", ".csv", ".log"}

\* a URL with a query string and a fragment: urlparse keeps them out of path
UrlWith(h, s, e, q, f) == [host |-> h, stem |-> s, ext |-> e, query |-> q, fragment |-> f]

\* a string urlparse rejects with ValueError (an unclosed IPv6 bracket)
MalformedUrl == [malformed |-> "http://[a.com/s.css"]

\* urlparse(url) raises
UrlParseRaises(url) == "malformed" \in DOMAIN url

\* variant: the extension compared as it is spelled
LowerAsSpelled(e) == e

\* str.lower() on the extensions of the model
Lower(e) == CASE e = ".CSS" -> ".css"
              [] e = ".Png" -> ".png"
              [] e = ".HTML" -> ".html"
              [] OTHER -> e

\* UrlPruneStage._sanitizer: False only for a blocked extension, the part of
\* the path after its last dot; True when urlparse raises
Sanitizer(url) ==
    IF UrlParseRaises(url) THEN TRUE
    ELSE LET path == UrlPath(url) IN
         IF path.ext # "" /\ Lower(path.ext) \in BLOCKED_EXTENSIONS
         THEN FALSE
         ELSE TRUE

\* ExactUrlMatchStage._get_path
GetPath(url) == UrlPath(url)

\* UrlPruneStage.execute
UrlPruneExecute(input) ==
    [old |-> SelectSeq(input.old, Sanitizer),
     new |-> SelectSeq(input.new, Sanitizer),
     mappings |-> {}]

\* a URL given by the segments of its path: the directories, and the name and
\* the extension of the last segment ("/blog" is BlogUrl(<<>>, "blog", ""))
BlogUrl(dirs, file, ext) == [host |-> "a.com", dirs |-> dirs, file |-> file, ext |-> ext]

\* str.lower() on the segment names of the model
LowerName(name) == CASE name = "Blog" -> "blog"
                     [] name = "Post" -> "post"
                     [] OTHER -> name

\* urlparse(url).path.lower(), as segments
LowerPath(url) ==
    [dirs |-> [i \in DOMAIN url.dirs |-> LowerName(url.dirs[i])],
     file |-> LowerName(url.file),
     ext |-> Lower(url.ext)]

\* path.endswith('/blog') or path.endswith('/blogs') or path.endswith('/news')
EndsWithLanding(path) == path.ext = "" /\ path.file \in {"blog", "blogs", "news"}

\* path.endswith('/index.html')
EndsWithIndexHtml(path) == path.file = "index" /\ path.ext = ".html"

\* '/blog' in path or '/news' in path, for a path of two segments or more: a
\* segment begins with blog or with news
HasBlogOrNews(path) ==
    \/ \E i \in DOMAIN path.dirs : path.dirs[i] \in {"blog", "blogs", "news"}
    \/ path.file \in {"blog", "blogs", "news"}

\* the segment begins with four digits and a dash
DatedName(name) == name \in {"2024-01-post"}

\* re.search(r'/(blogs?|news)/\d{4}-', path)
DatedPost(path) ==
    \E i \in DOMAIN path.dirs :
        /\ path.dirs[i] \in {"blog", "blogs", "news"}
        /\ IF i < Len(path.dirs) THEN DatedName(path.dirs[i + 1])
           ELSE DatedName(path.file)

\* '/blog/' in path, '/news/' in path: a directory of that very name
InDir(path, name) == \E i \in DOMAIN path.dirs : path.dirs[i] = name

\* path.endswith('.html') or path.endswith('.htm')
EndsWithHtml(path) == path.ext \in {".html", ".htm"}

\* BlogPruneStage._is_blog_post
IsBlogPost(url) ==
    LET path == LowerPath(url) IN
    IF EndsWithLanding(path) THEN FALSE
    ELSE IF EndsWithIndexHtml(path) /\ HasBlogOrNews(path) THEN FALSE
    ELSE IF DatedPost(path) THEN TRUE
    ELSE IF InDir(path, "blog") /\ ~ EndsWithIndexHtml(path) /\ EndsWithHtml(path) THEN TRUE
    ELSE IF InDir(path, "news") /\ ~ EndsWithIndexHtml(path) /\ EndsWithHtml(path) THEN TRUE
    ELSE FALSE

\* BlogPruneStage.execute
BlogPruneExecute(input) ==
    LET Keep(url) == ~ IsBlogPost(url)
    IN [old |-> SelectSeq(input.old, Keep), new |-> input.new, mappings |-> {}]

\* new_url_map = {path: url for url in new_urls}: a later URL replaces an
\* earlier one of the same path
RECURSIVE NewUrlMap(_, _)
NewUrlMap(new_urls, path) ==
    IF new_urls = <<>> THEN NoObject
    ELSE LET n == Len(new_urls) IN
         IF GetPath(new_urls[n]) = path THEN new_urls[n]
         ELSE NewUrlMap(SubSeq(new_urls, 1, n - 1), path)

NewUrlPaths(new_urls) == {GetPath(new_urls[i]) : i \in 1..Len(new_urls)}

\* the loop of ExactUrlMatchStage.execute: matched_pairs, in list order
RECURSIVE MatchedPairs(_, _)
MatchedPairs(old_urls, new_urls) ==
    IF old_urls = <<>> THEN <<>>
    ELSE LET old_url == Head(old_urls)
             old_path == GetPath(old_url)
             rest == MatchedPairs(Tail(old_urls), new_urls)
         IN IF old_path \in NewUrlPaths(new_urls)
            THEN <<[old_url |-> old_url,
                    new_url |-> NewUrlMap(new_urls, old_path)]>> \o rest
            ELSE rest

\* unmatched_old of ExactUrlMatchStage.execute
UnmatchedOld(old_urls, new_urls) ==
    LET NoMatch(u) == GetPath(u) \notin NewUrlPaths(new_urls)
    IN SelectSeq(old_urls, NoMatch)

\* matched_new_paths of ExactUrlMatchStage.execute
MatchedNewPaths(old_urls, new_urls) ==
    {GetPath(old_urls[i]) : i \in 1..Len(old_urls)} \cap NewUrlPaths(new_urls)

\* variant: the new list is passed on whole
UnmatchedNewUnfiltered(old_urls, new_urls) == new_urls

\* unmatched_new of ExactUrlMatchStage.execute
UnmatchedNew(old_urls, new_urls) ==
    LET Free(u) == GetPath(u) \notin MatchedNewPaths(old_urls, new_urls)
    IN SelectSeq(new_urls, Free)

\* a row of url_mappings as insert_mapping writes it
MappingRow(sid, old_url, new_url, confidence_score, match_type, needs_review) ==
    [session_id |-> sid, old_url |-> old_url, new_url |-> new_url,
     confidence_score |-> confidence_score, match_type |-> match_type,
     needs_review |-> needs_review]

\* the row ExactUrlMatchStage.execute inserts for one matched pair
ExactUrlRow(sid, pair) ==
    MappingRow(sid, pair.old_url, pair.new_url, EXACT_CONFIDENCE, "exact_url", FALSE)

RECURSIVE ExactUrlRows(_, _)
ExactUrlRows(sid, pairs) ==
    IF pairs = <<>> THEN EmptyBag
    ELSE SetToBag({ExactUrlRow(sid, Head(pairs))}) (+) ExactUrlRows(sid, Tail(pairs))

-----------------------------------------------------------------------------
(* Pages and mappings *)

EmptyHtml == [body |-> "", len |-> 0]
ShortHtml == [body |-> "stub", len |-> 50]
DocA == [body |-> "A", len |-> 120]
\* DocA with one more whitespace character
DocAws == [body |-> "A", len |-> 121]

Html == {EmptyHtml, ShortHtml, DocA, DocAws}

\* WebPage(url, html)
WebPage(url, html) == [url |-> url, html |-> html]

\* variant: a digest that ignores whitespace
StrHashNormalized(html) == html.body

\* hash(self.html): CPython's 64-bit str hash, free of collisions on Html,
\* so the digest of a document is given by the document
StrHash(html) == html

\* WebPage.__hash__
PageHash(page) == StrHash(page.html)

\* WebPage.__eq__
PageEq(p, q) == p.html = q.html

\* Mapping(old_page, new_page, confidence_score, match_type, needs_review)
Mapping(old_page, new_page, confidence_score, match_type, needs_review) ==
    [old_page |-> old_page, new_page |-> new_page,
     confidence_score |-> confidence_score, match_type |-> match_type,
     needs_review |-> needs_review]

\* Mapping.__eq__
MappingEq(m, n) == PageEq(m.old_page, n.old_page) /\ PageEq(m.new_page, n.new_page)

\* p in S for a Python set S of WebPage
PageIn(p, S) == \E q \in S : PageEq(p, q)

\* S.add(p) for a Python set S of WebPage: an equal element already in S stays
PageSetAdd(S, p) == IF PageIn(p, S) THEN S ELSE S \cup {p}

\* S.add(m) for a Python set S of Mapping
MappingSetAdd(S, m) == IF \E n \in S : MappingEq(m, n) THEN S ELSE S \cup {m}

\* variant: no minimum length
ValidPageAnyLength(p) == TRUE

\* len(p.html) >= MIN_HTML_LENGTH
ValidPage(p) == p.html.len >= MIN_HTML_LENGTH

\* valid_old_pages / valid_new_pages of HtmlPruneStage.execute
ValidPages(pages) == SelectSeq(pages, ValidPage)

\* the keys of new_page_map
NewPageHashes(valid_new) == {PageHash(valid_new[i]) : i \in 1..Len(valid_new)}

\* new_page_map[h] for new_page_map = {hash(page): page for page in valid_new_pages}:
\* the last page of the digest
NewPageMap(valid_new, h) ==
    LET last == CHOOSE i \in 1..Len(valid_new) :
                    /\ PageHash(valid_new[i]) = h
                    /\ \A j \in (i + 1)..Len(valid_new) : PageHash(valid_new[j]) # h
    IN valid_new[last]

\* variant: an exact_html match flagged for review
ExactHtmlMappingReviewed(page, new_page) ==
    Mapping(page, new_page, EXACT_CONFIDENCE, "exact_html", TRUE)

\* the Mapping HtmlPruneStage.execute builds for a match
ExactHtmlMapping(page, new_page) ==
    Mapping(page, new_page, EXACT_CONFIDENCE, "exact_html", FALSE)

\* the test of the loop of HtmlPruneStage.execute
HtmlMatches(page_hash, valid_new, matched_new_hashes) ==
    page_hash \in NewPageHashes(valid_new) /\ page_hash \notin matched_new_hashes

\* variant: every old page whose digest is present is mapped (no consumed
\* digests, mappings kept in a list)
RECURSIVE HtmlLoopEveryMatch(_, _, _, _, _)
HtmlLoopEveryMatch(valid_old, i, valid_new, mappings, matched_new_hashes) ==
    IF i > Len(valid_old) THEN mappings
    ELSE LET page == valid_old[i]
             page_hash == StrHash(page.html)
             hit == page_hash \in {StrHash(valid_new[j].html) : j \in 1..Len(valid_new)}
             last == CHOOSE j \in 1..Len(valid_new) :
                        /\ StrHash(valid_new[j].html) = page_hash
                        /\ \A k \in (j + 1)..Len(valid_new) :
                               StrHash(valid_new[k].html) # page_hash
         IN HtmlLoopEveryMatch(valid_old, i + 1, valid_new,
                IF hit
                THEN mappings \cup {Mapping(page, valid_new[last], EXACT_CONFIDENCE,
                                            "exact_html", FALSE)}
                ELSE mappings,
                matched_new_hashes)

\* the loop of HtmlPruneStage.execute over valid_old_pages, from position i
RECURSIVE HtmlLoop(_, _, _, _, _)
HtmlLoop(valid_old, i, valid_new, mappings, matched_new_hashes) ==
    IF i > Len(valid_old) THEN mappings
    ELSE LET page == valid_old[i]
             page_hash == PageHash(page)
         IN IF HtmlMatches(page_hash, valid_new, matched_new_hashes)
            THEN HtmlLoop(valid_old, i + 1, valid_new,
                          MappingSetAdd(mappings,
                              ExactHtmlMapping(page, NewPageMap(valid_new, page_hash))),
                          matched_new_hashes \cup {page_hash})
            ELSE HtmlLoop(valid_old, i + 1, valid_new, mappings, matched_new_hashes)

\* variant: the lists of valid pages are returned
HtmlPruneExecuteValidOnly(input) ==
    [old |-> ValidPages(input.old), new |-> ValidPages(input.new),
     mappings |-> HtmlLoop(ValidPages(input.old), 1, ValidPages(input.new), {}, {})]

\* HtmlPruneStage.execute
HtmlPruneExecute(input) ==
    [old |-> input.old, new |-> input.new,
     mappings |-> HtmlLoop(ValidPages(input.old), 1, ValidPages(input.new), {}, {})]

-----------------------------------------------------------------------------
(* PairingStage helpers *)

\* similarity values the storage collaborator may report
Scores == {50, 70, 75, 82, 85, 90}

\* a row of webpage_embeddings as insert_embedding writes it
EmbeddingRow(sid, url, site_type) ==
    [session_id |-> sid, url |-> url, site_type |-> site_type]

\* the URLs of the rows get_embeddings_by_session(session_id, site_type) returns
EmbeddedUrls(db, sid, site_type) ==
    {r.url : r \in {x \in db : x.session_id = sid /\ x.site_type = site_type}}

\* the results find_similar_pages (RPC match_pages) may return for one query:
\* the new-site rows of the session, at most match_count of them, each with a
\* similarity, in descending order of similarity
SimilarResults(urls) ==
    LET k == Min(Cardinality(urls), MATCH_COUNT)
        Rows == [url : urls, similarity : similarities]
    IN {r \in [1..k -> Rows] :
            /\ \A i, j \in 1..k : i # j => r[i].url # r[j].url
            /\ \A i \in 1..(k - 1) : r[i].similarity >= r[i + 1].similarity}

\* similar_pages without the rows of already matched new pages
Unconsumed(similar_pages, matched_new_pages) ==
    LET Free(p) == ~ \E matched \in matched_new_pages : p.url = matched.url
    IN SelectSeq(similar_pages, Free)

\* max(valid_matches, key=similarity): the first row of the highest similarity
FirstMax(rows) ==
    LET best == CHOOSE i \in 1..Len(rows) :
                    /\ \A j \in 1..Len(rows) : rows[j].similarity <= rows[i].similarity
                    /\ \A j \in 1..(i - 1) : rows[j].similarity < rows[i].similarity
    IN rows[best]

\* variant: the best candidate whatever its similarity
FindBestMatchUnfiltered(similar_pages) ==
    IF similar_pages = <<>> THEN NoObject
    ELSE FirstMax(similar_pages)

\* PairingStage._find_best_match
FindBestMatch(similar_pages) ==
    LET Valid(p) == p.similarity >= MEDIUM_CONFIDENCE_THRESHOLD
        valid_matches == SelectSeq(similar_pages, Valid)
    IN IF similar_pages = <<>> THEN NoObject
       ELSE IF valid_matches = <<>> THEN NoObject
       ELSE FirstMax(valid_matches)

\* sorted(similar_pages, key=similarity, reverse=True): a stable insertion sort
RECURSIVE SortDesc(_)
SortDesc(rows) ==
    IF rows = <<>> THEN <<>>
    ELSE LET n == Len(rows)
             x == rows[n]
             front == SortDesc(SubSeq(rows, 1, n - 1))
             k == Cardinality({i \in 1..Len(front) : front[i].similarity >= x.similarity})
         IN SubSeq(front, 1, k) \o <<x>> \o SubSeq(front, k + 1, Len(front))

\* PairingStage._is_ambiguous
IsAmbiguous(top_score, similar_pages) ==
    IF Len(similar_pages) < 2 THEN FALSE
    ELSE LET sorted_pages == SortDesc(similar_pages)
             second_score == sorted_pages[2].similarity
             gap == top_score - second_score
         IN gap < AMBIGUITY_GAP_THRESHOLD

\* PairingStage._create_mapping
CreateMapping(old_page, new_page, similarity_score, similar_pages) ==
    IF similarity_score >= SEMANTIC_HIGH_SCORE
    THEN Mapping(old_page, new_page, similarity_score, "semantic_high", FALSE)
    ELSE IF similarity_score >= HIGH_CONFIDENCE_THRESHOLD
    THEN Mapping(old_page, new_page, similarity_score, "semantic_medium",
                 IsAmbiguous(similarity_score, similar_pages))
    ELSE IF similarity_score >= MEDIUM_CONFIDENCE_THRESHOLD
    THEN Mapping(old_page, new_page, similarity_score, "semantic_low", TRUE)
    ELSE Mapping(old_page, new_page, similarity_score, "semantic_very_low", TRUE)

\* the row PairingStage.execute inserts for a Mapping
RowOfMapping(sid, m) ==
    MappingRow(sid, m.old_page.url, m.new_page.url, m.confidence_score,
               m.match_type, m.needs_review)

\* the rows inserted by the first loop of PairingStage.execute
RECURSIVE RowsOfMappings(_, _)
RowsOfMappings(sid, S) ==
    IF S = {} THEN EmptyBag
    ELSE LET m == CHOOSE x \in S : TRUE
         IN SetToBag({RowOfMapping(sid, m)}) (+) RowsOfMappings(sid, S \ {m})

\* a Python set of WebPage built by add() from the pages of P
RECURSIVE PageSetOf(_)
PageSetOf(P) ==
    IF P = {} THEN {}
    ELSE LET p == CHOOSE x \in P : TRUE
         IN PageSetAdd(PageSetOf(P \ {p}), p)

\* [p for p in pages if p not in matched]
NotIn(pages, matched) ==
    LET Free(p) == ~ PageIn(p, matched)
    IN SelectSeq(pages, Free)

\* next((p for p in unmatched_new_pages if p.url == url), None)
FirstWithUrl(pages, url) ==
    LET hits == {i \in 1..Len(pages) : pages[i].url = url}
    IN IF hits = {} THEN NoObject
       ELSE pages[CHOOSE i \in hits : \A j \in hits : i <= j]

-----------------------------------------------------------------------------
(* The pipeline *)

\* the list in the body of Pipeline.default_pipeline
DefaultStages ==
    <<"UrlPruneStage", "WebScraperStage", "HtmlPruneStage", "EmbedStage",
      "PairingStage">>

\* the six stages of stages.py in the order of their cost
FullStages ==
    <<"UrlPruneStage", "ExactUrlMatchStage", "WebScraperStage", "HtmlPruneStage",
      "EmbedStage", "PairingStage">>

\* the stages that work on pages
PageStages == <<"HtmlPruneStage", "EmbedStage", "PairingStage">>

\* a caller's explicit stages argument
StageList(arg) ==
    CASE arg = "full" -> FullStages
      [] arg = "pages" -> PageStages
      [] arg = "html" -> <<"HtmlPruneStage">>
      [] arg = "scrape" -> <<"WebScraperStage">>
      [] arg = "embed" -> <<"HtmlPruneStage", "EmbedStage">>
      [] arg = "batch" -> <<"EmbedStage">>
      [] arg = "urlprune" -> <<"UrlPruneStage">>
      [] arg = "blogprune" -> <<"BlogPruneStage">>

\* Pipeline.default_pipeline(session_id=session_id): a classmethod declared
\* without cls, so the class is bound to session_id and the keyword argument
\* is a second value for it: the call raises TypeError
DefaultPipelineRaises == TRUE

\* Pipeline.__init__ inside run_pipeline's try (a generic caller the same)
Construct ==
    /\ run = "new"
    /\ IF stages_arg = None
       THEN IF DefaultPipelineRaises
            THEN run' = "raised" /\ stages' = stages
            ELSE run' = "running" /\ stages' = DefaultStages
       ELSE run' = "running" /\ stages' = StageList(stages_arg)
    /\ UNCHANGED <<run_input, stages_arg, session_id, pipeline_session_id, index, state, fetched, db_mappings,
                   db_embeddings, matched_pairs, pairing,
                   network, responses, api_key, embed, faults, write_failures,
                   session_status, similarities>>

\* Pipeline.iterate is about to execute `stage`
AtStage(stage) ==
    /\ run = "running"
    /\ index < Len(stages)
    /\ stages[index + 1] = stage

UrlPrune ==
    /\ AtStage("UrlPruneStage")
    /\ state' = UrlPruneExecute(state)
    /\ index' = index + 1
    /\ UNCHANGED <<run_input, stages_arg, session_id, pipeline_session_id, stages, run, fetched, db_mappings,
                   db_embeddings, matched_pairs, pairing,
                   network, responses, api_key, embed, faults, write_failures,
                   session_status, similarities>>

BlogPrune ==
    /\ AtStage("BlogPruneStage")
    /\ state' = BlogPruneExecute(state)
    /\ index' = index + 1
    /\ UNCHANGED <<run_input, stages_arg, session_id, pipeline_session_id, stages, run,
                   fetched, db_mappings, db_embeddings, matched_pairs, pairing,
                   network, responses, api_key, embed, faults, write_failures,
                   session_status, similarities>>

\* ExactUrlMatchStage.execute
ExactUrlMatch ==
    /\ AtStage("ExactUrlMatchStage")
    /\ LET pairs == MatchedPairs(state.old, state.new) IN
        /\ matched_pairs' = pairs
        /\ db_mappings' = IF session_id # None /\ pairs # <<>>
                          THEN db_mappings (+) ExactUrlRows(session_id, pairs)
                          ELSE db_mappings
        /\ state' = [old |-> UnmatchedOld(state.old, state.new),
                     new |-> UnmatchedNew(state.old, state.new),
                     mappings |-> {}]
    /\ index' = index + 1
    /\ UNCHANGED <<run_input, stages_arg, session_id, pipeline_session_id, stages, run, fetched, db_embeddings,
                   pairing,
                   network, responses, api_key, embed, faults, write_failures,
                   session_status, similarities>>

\* the documents the two sites serve in a run on URL lists
ServedHtml == {DocA, DocAws}

\* what session.get may do for one URL
FetchOutcomes ==
    {[kind |-> "response", status |-> 200, body |-> h] : h \in Html}
    \cup {[kind |-> "response", status |-> 404, body |-> DocA],
          [kind |-> "ClientError"], [kind |-> "TimeoutError"], [kind |-> "Exception"]}

\* one outcome per kind of page content a fetch can end with
PlainOutcomes ==
    {[kind |-> "response", status |-> 200, body |-> h] : h \in ServedHtml}
    \cup {[kind |-> "ClientError"]}

\* variant: the body is kept whatever the status
ScrapeAnyStatus(url, outcome) ==
    IF outcome.kind = "response"
    THEN WebPage(url, outcome.body)
    ELSE WebPage(url, EmptyHtml)

\* WebPage.scrape
Scrape(url, outcome) ==
    IF outcome.kind = "response" /\ outcome.status = 200
    THEN WebPage(url, outcome.body)
    ELSE WebPage(url, EmptyHtml)

\* WebScraperStage.execute
WebScraper ==
    /\ AtStage("WebScraperStage")
    /\ \E old_out \in [1..Len(state.old) -> network],
          new_out \in [1..Len(state.new) -> network] :
          /\ state' = [old |-> [i \in 1..Len(state.old) |-> Scrape(state.old[i], old_out[i])],
                       new |-> [i \in 1..Len(state.new) |-> Scrape(state.new[i], new_out[i])],
                       mappings |-> {}]
          /\ responses' = [old |-> old_out, new |-> new_out]
    /\ fetched' = fetched \cup Range(state.old) \cup Range(state.new)
    /\ index' = index + 1
    /\ UNCHANGED <<run_input, stages_arg, session_id, pipeline_session_id, stages, run, db_mappings, db_embeddings,
                   matched_pairs, pairing,
                   network, api_key, embed, faults, write_failures,
                   session_status, similarities>>

HtmlPrune ==
    /\ AtStage("HtmlPruneStage")
    /\ state' = HtmlPruneExecute(state)
    /\ index' = index + 1
    /\ UNCHANGED <<run_input, stages_arg, session_id, pipeline_session_id, stages, run, fetched, db_mappings,
                   db_embeddings, matched_pairs, pairing,
                   network, responses, api_key, embed, faults, write_failures,
                   session_status, similarities>>

\* the session EmbedStage writes under: its own when it was built without one
EmbedSession == IF session_id = None THEN "created-by-EmbedStage" ELSE session_id

\* EmbedStage.execute as one step: it raises when the credential is missing;
\* otherwise a page's embedding is stored unless its provider calls all fail
\* or its insert fails: the page is then skipped
Embed ==
    /\ AtStage("EmbedStage")
    /\ IF ~ api_key
       THEN /\ run' = "raised"
            /\ UNCHANGED <<db_embeddings, index>>
       ELSE /\ \E ok_old \in SUBSET (1..Len(state.old)),
                  ok_new \in SUBSET (1..Len(state.new)) :
                  db_embeddings' = db_embeddings
                      \cup {EmbeddingRow(EmbedSession, state.old[i].url, "old") : i \in ok_old}
                      \cup {EmbeddingRow(EmbedSession, state.new[i].url, "new") : i \in ok_new}
            /\ index' = index + 1
            /\ run' = run
    /\ UNCHANGED <<run_input, stages_arg, session_id, pipeline_session_id, stages, state, fetched, db_mappings,
                   matched_pairs, pairing, network, responses, api_key, embed, faults,
                   write_failures, session_status, similarities>>

\* a task of _generate_and_store_embedding: waiting (not created), calling
\* (a provider call in flight), sleeping (asyncio.sleep), and finished as
\* stored, failed (the last attempt raised) or rejected (insert_embedding
\* raised); calls and waits are what it has called and slept so far
WaitingTask == [pc |-> "waiting", attempt |-> 0, calls |-> 0, waits |-> <<>>]

Finished(task) == task.pc \in {"stored", "failed", "rejected"}

\* variant: one more round of the retry loop
RetryAgainOnceMore(attempt) == attempt < MAX_RETRIES

\* `if attempt < max_retries - 1` of _generate_embedding_with_retry
RetryAgain(attempt) == attempt < MAX_RETRIES - 1

\* 2 ** attempt
Backoff(attempt) == 2 ^ attempt

\* variant: the whole list is one batch
BatchEndUnbounded(start, n) == n

\* the last position of pages[i:i+batch_size] for i = start - 1 and len(pages) = n
BatchEnd(start, n) == Min(start + BATCH_SIZE - 1, n)

\* the pages of the site EmbedStage works on
SitePages(site) == IF site = "old" THEN state.old ELSE state.new

\* the tasks of a site
SiteTasks(site) == IF site = "old" THEN embed.old_tasks ELSE embed.new_tasks

\* the tasks of a site with task i replaced
WithTask(site, i, task) ==
    IF site = "old"
    THEN [embed EXCEPT !.old_tasks[i] = task]
    ELSE [embed EXCEPT !.new_tasks[i] = task]

\* asyncio.gather over a batch: every task of start..stop runs to its first
\* await, the provider call of attempt 0
Gather(tasks, start, stop) ==
    [i \in DOMAIN tasks |->
        IF i \in start..stop
        THEN [pc |-> "calling", attempt |-> 0, calls |-> 1, waits |-> <<>>]
        ELSE tasks[i]]

\* EmbedStage.execute up to the first _process_pages
EmbedBegin ==
    /\ AtStage("EmbedStage")
    /\ embed.pc = "idle"
    /\ IF ~ api_key
       THEN run' = "raised" /\ embed' = embed
       ELSE /\ run' = run
            /\ embed' = [pc |-> "next", site |-> "old", start |-> 1,
                         old_tasks |-> [i \in DOMAIN state.old |-> WaitingTask],
                         new_tasks |-> [i \in DOMAIN state.new |-> WaitingTask]]
    /\ UNCHANGED <<run_input, stages_arg, session_id, pipeline_session_id, stages, index, state, fetched,
                   db_mappings, db_embeddings, matched_pairs, pairing, network, responses,
                   api_key, faults, write_failures, session_status, similarities>>

\* the head of the loop of _process_pages: the next batch of the site, the
\* next site, or the return of EmbedStage.execute
EmbedNext ==
    /\ run = "running"
    /\ embed.pc = "next"
    /\ LET n == Len(SitePages(embed.site))
           stop == BatchEnd(embed.start, n)
       IN IF embed.start <= n
          THEN /\ embed' = [embed EXCEPT
                              !.pc = "gather",
                              !.old_tasks = IF embed.site = "old"
                                            THEN Gather(@, embed.start, stop) ELSE @,
                              !.new_tasks = IF embed.site = "new"
                                            THEN Gather(@, embed.start, stop) ELSE @]
               /\ index' = index
          ELSE IF embed.site = "old"
          THEN /\ embed' = [embed EXCEPT !.site = "new", !.start = 1]
               /\ index' = index
          ELSE /\ embed' = [embed EXCEPT !.pc = "done"]
               /\ index' = index + 1
    /\ UNCHANGED <<run_input, stages_arg, session_id, pipeline_session_id, stages, state, run, fetched,
                   db_mappings, db_embeddings, matched_pairs, pairing, network, responses,
                   api_key, faults, write_failures, session_status, similarities>>

\* what may come of a provider call that returns: the embedding stored, the
\* insert rejected by the storage, or the call failed
CallResults ==
    {"stored"}
    \cup (IF faults.storage > 0 THEN {"rejected"} ELSE {})
    \cup (IF faults.provider > 0 THEN {"error"} ELSE {})

\* the provider call of a task returns: _generate_embedding_with_retry from
\* the await of create to its next await or its end, and, when it returned an
\* embedding, insert_embedding and the except of _generate_and_store_embedding
ProviderReturns ==
    /\ run = "running"
    /\ embed.pc = "gather"
    /\ \E i \in DOMAIN SiteTasks(embed.site), result \in CallResults :
        LET site == embed.site
            task == SiteTasks(site)[i]
            page == SitePages(site)[i]
        IN /\ task.pc = "calling"
           /\ IF result = "stored"
              THEN /\ embed' = WithTask(site, i, [task EXCEPT !.pc = "stored"])
                   /\ db_embeddings' = db_embeddings
                          \cup {EmbeddingRow(EmbedSession, page.url, site)}
                   /\ UNCHANGED <<faults, write_failures>>
              ELSE IF result = "rejected"
              THEN /\ embed' = WithTask(site, i, [task EXCEPT !.pc = "rejected"])
                   /\ faults' = [faults EXCEPT !.storage = @ - 1]
                   /\ write_failures' = write_failures + 1
                   /\ UNCHANGED db_embeddings
              ELSE /\ embed' = WithTask(site, i,
                          IF RetryAgain(task.attempt)
                          THEN [task EXCEPT !.pc = "sleeping",
                                            !.waits = Append(@, Backoff(task.attempt))]
                          ELSE [task EXCEPT !.pc = "failed"])
                   /\ faults' = [faults EXCEPT !.provider = @ - 1]
                   /\ UNCHANGED <<db_embeddings, write_failures>>
    /\ UNCHANGED <<run_input, stages_arg, session_id, pipeline_session_id, stages, index, state, run, fetched,
                   db_mappings, matched_pairs, pairing, network, responses, api_key,
                   session_status, similarities>>

\* asyncio.sleep of a task ends: the next round of the retry loop calls the
\* provider
SleepEnds ==
    /\ run = "running"
    /\ embed.pc = "gather"
    /\ \E i \in DOMAIN SiteTasks(embed.site) :
        /\ SiteTasks(embed.site)[i].pc = "sleeping"
        /\ embed' = WithTask(embed.site, i,
                        [SiteTasks(embed.site)[i] EXCEPT !.pc = "calling",
                                                        !.attempt = @ + 1,
                                                        !.calls = @ + 1])
    /\ UNCHANGED <<run_input, stages_arg, session_id, pipeline_session_id, stages, index, state, run, fetched,
                   db_mappings, db_embeddings, matched_pairs, pairing, network, responses,
                   api_key, faults, write_failures, session_status, similarities>>

\* variant: gather returns as soon as a task has raised
GatherDoneOnFailure ==
    /\ run = "running"
    /\ embed.pc = "gather"
    /\ \/ \E i \in DOMAIN SiteTasks(embed.site) : SiteTasks(embed.site)[i].pc = "failed"
       \/ \A i \in DOMAIN SiteTasks(embed.site) :
             SiteTasks(embed.site)[i].pc = "waiting" \/ Finished(SiteTasks(embed.site)[i])
    /\ embed' = [embed EXCEPT !.pc = "next", !.start = @ + BATCH_SIZE]
    /\ UNCHANGED <<run_input, stages_arg, session_id, pipeline_session_id, stages, index, state, run, fetched,
                   db_mappings, db_embeddings, matched_pairs, pairing, network, responses,
                   api_key, faults, write_failures, session_status, similarities>>

\* asyncio.gather returns: every task of the batch has finished
GatherDone ==
    /\ run = "running"
    /\ embed.pc = "gather"
    /\ \A i \in DOMAIN SiteTasks(embed.site) :
          SiteTasks(embed.site)[i].pc = "waiting" \/ Finished(SiteTasks(embed.site)[i])
    /\ embed' = [embed EXCEPT !.pc = "next", !.start = @ + BATCH_SIZE]
    /\ UNCHANGED <<run_input, stages_arg, session_id, pipeline_session_id, stages, index, state, run, fetched,
                   db_mappings, db_embeddings, matched_pairs, pairing, network, responses,
                   api_key, faults, write_failures, session_status, similarities>>

\* variant: every old page is taken to have an embedding
OldEmbeddingRecordAssumed(old_page) == TRUE

\* old_embedding_record of PairingStage.execute is not None: the rows of the
\* session's old site hold one for the page's URL
OldEmbeddingRecord(old_page) ==
    old_page.url \in EmbeddedUrls(db_embeddings, session_id, "old")

\* PairingStage.execute up to its main loop
PairingBegin ==
    /\ AtStage("PairingStage")
    /\ pairing.pc = "idle"
    /\ IF session_id = None
       THEN /\ run' = "raised"
            /\ UNCHANGED <<db_mappings, pairing>>
       ELSE /\ db_mappings' = db_mappings (+) RowsOfMappings(session_id, state.mappings)
            /\ LET matched_old_pages == PageSetOf({m.old_page : m \in state.mappings})
                   matched_new_pages == PageSetOf({m.new_page : m \in state.mappings})
               IN pairing' = [pc |-> "loop", i |-> 1, found |-> <<>>,
                              matched_old_pages |-> matched_old_pages,
                              matched_new_pages |-> matched_new_pages,
                              all_mappings |-> state.mappings,
                              unmatched_old_pages |-> NotIn(state.old, matched_old_pages),
                              unmatched_new_pages |-> NotIn(state.new, matched_new_pages)]
            /\ run' = run
    /\ UNCHANGED <<run_input, stages_arg, session_id, pipeline_session_id, stages, index, state, fetched,
                   db_embeddings, matched_pairs,
                   network, responses, api_key, embed, faults, write_failures,
                   session_status, similarities>>

\* what one iteration of the main loop does to the locals and the table, given
\* the answer of find_similar_pages
PairOne(old_page, found) ==
    LET similar_pages == Unconsumed(found, pairing.matched_new_pages)
        best_match == FindBestMatch(similar_pages)
        new_page == IF best_match = NoObject THEN NoObject
                    ELSE FirstWithUrl(pairing.unmatched_new_pages, best_match.url)
        mapping == CreateMapping(old_page, new_page, best_match.similarity, similar_pages)
    IN IF similar_pages = <<>> \/ best_match = NoObject \/ new_page = NoObject
       THEN /\ pairing' = [pairing EXCEPT !.i = @ + 1, !.found = found]
            /\ db_mappings' = db_mappings
       ELSE /\ db_mappings' = db_mappings (+) SetToBag({RowOfMapping(session_id, mapping)})
            /\ pairing' = [pairing EXCEPT
                            !.i = @ + 1,
                            !.found = found,
                            !.all_mappings = MappingSetAdd(@, mapping),
                            !.matched_old_pages = PageSetAdd(@, old_page),
                            !.matched_new_pages = PageSetAdd(@, new_page)]

\* one iteration of the main loop of PairingStage.execute
PairingStep ==
    /\ run = "running"
    /\ pairing.pc = "loop"
    /\ pairing.i <= Len(pairing.unmatched_old_pages)
    /\ LET old_page == pairing.unmatched_old_pages[pairing.i] IN
       IF ~ OldEmbeddingRecord(old_page)
       THEN /\ pairing' = [pairing EXCEPT !.i = @ + 1]
            /\ db_mappings' = db_mappings
       ELSE \E found \in SimilarResults(EmbeddedUrls(db_embeddings, session_id, "new")) :
                PairOne(old_page, found)
    /\ UNCHANGED <<run_input, stages_arg, session_id, pipeline_session_id, stages, index, state, run, fetched,
                   db_embeddings, matched_pairs,
                   network, responses, api_key, embed, faults, write_failures,
                   session_status, similarities>>

\* the end of PairingStage.execute: the return
PairingEnd ==
    /\ run = "running"
    /\ pairing.pc = "loop"
    /\ pairing.i > Len(pairing.unmatched_old_pages)
    /\ state' = [old |-> state.old, new |-> state.new, mappings |-> pairing.all_mappings]
    /\ pairing' = [pc |-> "done"]
    /\ index' = index + 1
    /\ UNCHANGED <<run_input, stages_arg, session_id, pipeline_session_id, stages, run, fetched, db_mappings,
                   db_embeddings, matched_pairs,
                   network, responses, api_key, embed, faults, write_failures,
                   session_status, similarities>>

\* Pipeline.iterate is exhausted: the caller's loop ends
Finish ==
    /\ run = "running"
    /\ index = Len(stages)
    /\ run' = "returned"
    /\ UNCHANGED <<run_input, stages_arg, session_id, pipeline_session_id, stages, index, state, fetched,
                   db_mappings, db_embeddings, matched_pairs, pairing,
                   network, responses, api_key, embed, faults, write_failures,
                   session_status, similarities>>

-----------------------------------------------------------------------------
(* Specifications *)

\* a run on two URL lists: run_pipeline (no stages argument, a session created)
\* or a caller that passes the six stages
Init ==
    /\ stages_arg \in {None, "full"}
    /\ session_id = "s1"
    /\ pipeline_session_id = session_id
    /\ stages = <<>>
    /\ index = 0
    /\ \E old_urls \in SeqsUpTo(OldUrlSet, MaxUrls), new_urls \in SeqsUpTo(NewUrlSet, MaxUrls) :
          /\ Len(old_urls) + Len(new_urls) <= MaxUrls
          /\ run_input = [old |-> old_urls, new |-> new_urls, mappings |-> {}]
    /\ state = run_input
    /\ run = "new"
    /\ fetched = {}
    /\ db_mappings = EmptyBag
    /\ db_embeddings = {}
    /\ matched_pairs = <<>>
    /\ pairing = NoPairing
    /\ network = PlainOutcomes
    /\ api_key \in BOOLEAN
    /\ responses = NoResponses
    /\ embed = NoEmbed
    /\ faults = NoFaults
    /\ write_failures = 0
    /\ session_status = "pending"
    /\ similarities = Scores

Next ==
    \/ Construct
    \/ UrlPrune
    \/ ExactUrlMatch
    \/ WebScraper
    \/ HtmlPrune
    \/ Embed
    \/ PairingBegin
    \/ PairingStep
    \/ PairingEnd
    \/ Finish

Spec == Init /\ [][Next]_vars

\* the URLs of the pages handed to the page stages, one per list position
PagePaths == <<"/p1", "/p2", "/p3", "/p4", "/p5", "/p6", "/p7", "/p8", "/p9", "/p10",
               "/p11", "/p12", "/p13">>
OldPageUrl(i) == Url("old.com", PagePaths[i], ".html")
NewPageUrl(i) == Url("new.com", PagePaths[i], ".html")

\* a pipeline built by a caller that passes its stages and two lists of
\* scraped pages
PagesInit(arg, htmls, max_old, max_new) ==
    /\ stages_arg = arg
    /\ session_id = "s1"
    /\ pipeline_session_id = session_id
    /\ stages = StageList(arg)
    /\ index = 0
    /\ \E old_html \in SeqsUpTo(htmls, max_old), new_html \in SeqsUpTo(htmls, max_new) :
          run_input = [old |-> [i \in 1..Len(old_html) |-> WebPage(OldPageUrl(i), old_html[i])],
                   new |-> [i \in 1..Len(new_html) |-> WebPage(NewPageUrl(i), new_html[i])],
                   mappings |-> {}]
    /\ state = run_input
    /\ run = "running"
    /\ fetched = {}
    /\ db_mappings = EmptyBag
    /\ db_embeddings = {}
    /\ matched_pairs = <<>>
    /\ pairing = NoPairing
    /\ network = PlainOutcomes
    /\ api_key = TRUE
    /\ responses = NoResponses
    /\ embed = NoEmbed
    /\ faults = NoFaults
    /\ write_failures = 0
    /\ session_status = "pending"
    /\ similarities = Scores

\* HtmlPruneStage alone
InitHtml == PagesInit("html", Html, MaxOldPages, MaxNewPages)

NextHtml ==
    \/ HtmlPrune
    \/ Finish

SpecHtml == InitHtml /\ [][NextHtml]_vars

\* HtmlPruneStage, EmbedStage and PairingStage
PairingHtml == {EmptyHtml, DocA}
InitPairing == PagesInit("pages", PairingHtml, MaxPairOld, MaxPairNew)

NextPairing ==
    \/ HtmlPrune
    \/ Embed
    \/ PairingBegin
    \/ PairingStep
    \/ PairingEnd
    \/ Finish

SpecPairing == InitPairing /\ [][NextPairing]_vars

\* WebScraperStage alone, on a network that may do anything
InitScrape ==
    /\ stages_arg = "scrape"
    /\ session_id = "s1"
    /\ pipeline_session_id = session_id
    /\ stages = StageList("scrape")
    /\ index = 0
    /\ \E old_urls \in SeqsUpTo(OldUrlSet, MaxScrapeUrls),
          new_urls \in SeqsUpTo(NewUrlSet, MaxScrapeUrls) :
          /\ Len(old_urls) + Len(new_urls) <= MaxScrapeUrls
          /\ run_input = [old |-> old_urls, new |-> new_urls, mappings |-> {}]
    /\ state = run_input
    /\ run = "running"
    /\ fetched = {}
    /\ db_mappings = EmptyBag
    /\ db_embeddings = {}
    /\ matched_pairs = <<>>
    /\ pairing = NoPairing
    /\ network = FetchOutcomes
    /\ api_key = TRUE
    /\ responses = NoResponses
    /\ embed = NoEmbed
    /\ faults = NoFaults
    /\ write_failures = 0
    /\ session_status = "pending"
    /\ similarities = Scores

NextScrape ==
    \/ WebScraper
    \/ Finish

SpecScrape == InitScrape /\ [][NextScrape]_vars

\* a pipeline built by a caller that passes its stages and two lists of
\* scraped pages, with a provider and a storage that may fail
FaultyInit(arg, htmls, max_old, max_new, provider_faults, storage_faults) ==
    /\ stages_arg = arg
    /\ session_id = "s1"
    /\ pipeline_session_id = session_id
    /\ stages = StageList(arg)
    /\ index = 0
    /\ \E old_html \in SeqsUpTo(htmls, max_old), new_html \in SeqsUpTo(htmls, max_new) :
          run_input = [old |-> [i \in 1..Len(old_html) |-> WebPage(OldPageUrl(i), old_html[i])],
                       new |-> [i \in 1..Len(new_html) |-> WebPage(NewPageUrl(i), new_html[i])],
                       mappings |-> {}]
    /\ state = run_input
    /\ run = "running"
    /\ fetched = {}
    /\ db_mappings = EmptyBag
    /\ db_embeddings = {}
    /\ matched_pairs = <<>>
    /\ pairing = NoPairing
    /\ network = PlainOutcomes
    /\ api_key \in BOOLEAN
    /\ responses = NoResponses
    /\ embed = NoEmbed
    /\ faults = [provider |-> provider_faults, storage |-> storage_faults]
    /\ write_failures = 0
    /\ session_status = "pending"
    /\ similarities = Scores

\* HtmlPruneStage and EmbedStage, task by task
InitEmbed ==
    FaultyInit("embed", PairingHtml, MaxEmbedOld, MaxEmbedNew,
               MaxProviderFaults, MaxStorageFaults)

NextEmbed ==
    \/ HtmlPrune
    \/ EmbedBegin
    \/ EmbedNext
    \/ ProviderReturns
    \/ SleepEnds
    \/ GatherDone
    \/ Finish

SpecEmbed == InitEmbed /\ [][NextEmbed]_vars

\* the event loop runs every task that can run, provider calls return and
\* sleeps end
SpecEmbedFair == SpecEmbed /\ WF_vars(NextEmbed)

\* EmbedStage alone on lists longer than a batch
InitBatch ==
    FaultyInit("batch", {DocA}, MaxBatchOld, MaxBatchNew, MaxBatchFaults, 0)

NextBatch ==
    \/ EmbedBegin
    \/ EmbedNext
    \/ ProviderReturns
    \/ SleepEnds
    \/ GatherDone
    \/ Finish

SpecBatch == InitBatch /\ [][NextBatch]_vars

\* the URLs handed to UrlPruneStage alone: pages, assets in several spellings,
\* a dot in a directory name, query strings and fragments, a malformed URL
PruneUrls ==
    {Url("a.com", "/x", ".html"), Url("a.com", "/x", ".htm"), Url("a.com", "/y", ""),
     Url("a.com", "/s", ".css"), Url("a.com", "/s", ".CSS"), Url("a.com", "/i", ".Png"),
     Url("a.com", "/p", ".php"),
     Url("a.com", "/v1", ".2/page"), Url("a.com", "/files", ".css/page"),
     UrlWith("a.com", "/y", "", "?f=a.css", ""),
     UrlWith("a.com", "/s", ".css", "?v=2", "#top"),
     UrlWith("a.com", "/x", ".html", "", "#a.png"),
     MalformedUrl}

\* UrlPruneStage alone
InitUrlPrune ==
    /\ stages_arg = "urlprune"
    /\ session_id = "s1"
    /\ pipeline_session_id = session_id
    /\ stages = StageList("urlprune")
    /\ index = 0
    /\ \E old_urls \in SeqsUpTo(PruneUrls, MaxPruneUrls),
          new_urls \in SeqsUpTo(PruneUrls, MaxPruneUrls) :
          /\ Len(old_urls) + Len(new_urls) <= MaxPruneUrls
          /\ run_input = [old |-> old_urls, new |-> new_urls, mappings |-> {}]
    /\ state = run_input
    /\ run = "running"
    /\ fetched = {}
    /\ db_mappings = EmptyBag
    /\ db_embeddings = {}
    /\ matched_pairs = <<>>
    /\ pairing = NoPairing
    /\ network = PlainOutcomes
    /\ api_key = TRUE
    /\ responses = NoResponses
    /\ embed = NoEmbed
    /\ faults = NoFaults
    /\ write_failures = 0
    /\ session_status = "pending"
    /\ similarities = Scores

NextUrlPrune ==
    \/ UrlPrune
    \/ Finish

SpecUrlPrune == InitUrlPrune /\ [][NextUrlPrune]_vars

\* HtmlPruneStage, EmbedStage and PairingStage handed to a Pipeline built with
\* a session id: the caller built the stages with that id, or without one
InitSession ==
    /\ stages_arg = "pages"
    /\ pipeline_session_id = "s1"
    /\ session_id \in {pipeline_session_id, None}
    /\ stages = StageList("pages")
    /\ index = 0
    /\ \E old_html \in SeqsUpTo(PairingHtml, MaxSessionOld),
          new_html \in SeqsUpTo(PairingHtml, MaxSessionNew) :
          run_input = [old |-> [i \in 1..Len(old_html) |-> WebPage(OldPageUrl(i), old_html[i])],
                       new |-> [i \in 1..Len(new_html) |-> WebPage(NewPageUrl(i), new_html[i])],
                       mappings |-> {}]
    /\ state = run_input
    /\ run = "running"
    /\ fetched = {}
    /\ db_mappings = EmptyBag
    /\ db_embeddings = {}
    /\ matched_pairs = <<>>
    /\ pairing = NoPairing
    /\ network = PlainOutcomes
    /\ api_key = TRUE
    /\ responses = NoResponses
    /\ embed = NoEmbed
    /\ faults = NoFaults
    /\ write_failures = 0
    /\ session_status = "pending"
    /\ similarities = Scores

SpecSession == InitSession /\ [][NextPairing]_vars

\* HtmlPruneStage, EmbedStage and PairingStage on sites whose pages all hold
\* the same HTML (here none: every fetch failed)
\* the similarities of pages that hold the same text: all close to each other
ReviewScores == {82, 85}

InitReview ==
    /\ stages_arg = "pages"
    /\ session_id = "s1"
    /\ pipeline_session_id = session_id
    /\ stages = StageList("pages")
    /\ index = 0
    /\ \E old_html \in SeqsUpTo({EmptyHtml}, MaxReviewOld),
          new_html \in SeqsUpTo({EmptyHtml}, MaxReviewNew) :
          run_input = [old |-> [i \in 1..Len(old_html) |-> WebPage(OldPageUrl(i), old_html[i])],
                       new |-> [i \in 1..Len(new_html) |-> WebPage(NewPageUrl(i), new_html[i])],
                       mappings |-> {}]
    /\ state = run_input
    /\ run = "running"
    /\ fetched = {}
    /\ db_mappings = EmptyBag
    /\ db_embeddings = {}
    /\ matched_pairs = <<>>
    /\ pairing = NoPairing
    /\ network = PlainOutcomes
    /\ api_key = TRUE
    /\ responses = NoResponses
    /\ embed = NoEmbed
    /\ faults = NoFaults
    /\ write_failures = 0
    /\ session_status = "pending"
    /\ similarities = ReviewScores

SpecReview == InitReview /\ [][NextPairing]_vars

\* the URLs handed to BlogPruneStage alone: landing pages, index pages,
\* posts with and without a date, pages outside the blog
BlogUrls ==
    {BlogUrl(<<>>, "blog", ""), BlogUrl(<<>>, "blogs", ""), BlogUrl(<<>>, "news", ""),
     BlogUrl(<<"blog">>, "index", ".html"), BlogUrl(<<"blogs">>, "index", ".html"),
     BlogUrl(<<"news">>, "index", ".html"),
     BlogUrl(<<"blog">>, "post", ".html"), BlogUrl(<<"blogs">>, "post", ".html"),
     BlogUrl(<<"news">>, "post", ".htm"), BlogUrl(<<"Blog">>, "Post", ".html"),
     BlogUrl(<<"blog">>, "2024-01-post", ""), BlogUrl(<<"blogs">>, "2024-01-post", ".html"),
     BlogUrl(<<"blog", "archive">>, "post", ".html"),
     BlogUrl(<<"about">>, "post", ".html"), BlogUrl(<<>>, "index", ".html")}

\* BlogPruneStage alone
InitBlogPrune ==
    /\ stages_arg = "blogprune"
    /\ session_id = "s1"
    /\ pipeline_session_id = session_id
    /\ stages = StageList("blogprune")
    /\ index = 0
    /\ \E old_urls \in SeqsUpTo(BlogUrls, MaxBlogUrls),
          new_urls \in SeqsUpTo(BlogUrls, MaxBlogUrls) :
          /\ Len(old_urls) + Len(new_urls) <= MaxBlogUrls
          /\ run_input = [old |-> old_urls, new |-> new_urls, mappings |-> {}]
    /\ state = run_input
    /\ run = "running"
    /\ fetched = {}
    /\ db_mappings = EmptyBag
    /\ db_embeddings = {}
    /\ matched_pairs = <<>>
    /\ pairing = NoPairing
    /\ network = PlainOutcomes
    /\ api_key = TRUE
    /\ responses = NoResponses
    /\ embed = NoEmbed
    /\ faults = NoFaults
    /\ write_failures = 0
    /\ session_status = "pending"
    /\ similarities = Scores

NextBlogPrune ==
    \/ BlogPrune
    \/ Finish

SpecBlogPrune == InitBlogPrune /\ [][NextBlogPrune]_vars

-----------------------------------------------------------------------------
(* Properties *)

\* the rows of url_mappings, each once
Rows == BagToSet(db_mappings)

\* C1: after a full run (URL prune, exact-path match, scrape, HTML match,
\* embed, pairing) no old URL is the old_url of more than one persisted
\* mapping.  Violated: an old URL that the input lists twice is inserted once
\* per occurrence by ExactUrlMatchStage.
C1_OldUrlMappedOnce ==
    (stages_arg = "full" /\ run = "returned") =>
        \A r, q \in Rows :
            r.old_url = q.old_url => (r = q /\ CopiesIn(r, db_mappings) = 1)

\* C2: in PairingStage.execute no new URL is the target of two persisted
\* mappings, whatever find_similar_pages answers and whatever the pages hold.
\* Violated: new pages of identical (here empty) HTML are one element of
\* matched_new_pages, so the second of them is never marked consumed.
C2_NewPageConsumedOnce ==
    \A r, q \in Rows :
        r.new_url = q.new_url => (r = q /\ CopiesIn(r, db_mappings) = 1)

\* the old page of the iteration a PairingStep runs
StepOldPage == pairing.unmatched_old_pages[pairing.i]

\* a step of the main loop that called find_similar_pages
Queried ==
    /\ pairing.pc = "loop"
    /\ pairing'.pc = "loop"
    /\ pairing'.i = pairing.i + 1
    /\ StepOldPage.url \in EmbeddedUrls(db_embeddings, session_id, "old")

\* the new URLs consumed by a persisted mapping before the step
ConsumedUrls == {r.new_url : r \in Rows}

\* the candidates of the step that no mapping has consumed
Remaining ==
    LET Free(c) == c.url \notin ConsumedUrls
    IN SelectSeq(pairing'.found, Free)

\* the rows the step inserted
AddedRows ==
    {r \in BagToSet(db_mappings') : CopiesIn(r, db_mappings') > CopiesIn(r, db_mappings)}

\* the highest similarity of a non-empty candidate list
TopSimilarity(rows) ==
    CHOOSE s \in {rows[i].similarity : i \in DOMAIN rows} :
        \A j \in DOMAIN rows : rows[j].similarity <= s

\* the second-best similarity of a candidate list of two or more
SecondSimilarity(rows) ==
    LET t == CHOOSE i \in DOMAIN rows : rows[i].similarity = TopSimilarity(rows)
        others == {rows[j].similarity : j \in DOMAIN rows \ {t}}
    IN CHOOSE s \in others : \A x \in others : x <= s

\* the band of the confidence table for a top score s and the candidates
BandType(s) ==
    IF s >= 90 THEN "semantic_high"
    ELSE IF s >= 85 THEN "semantic_medium"
    ELSE "semantic_low"

BandReview(s, rows) ==
    IF s >= 90 THEN FALSE
    ELSE IF s >= 85 THEN Len(rows) >= 2 /\ s - SecondSimilarity(rows) < 10
    ELSE TRUE

\* C3: the outcome of PairingStage for an old page is a total function of the
\* top score s and the second-best score of its remaining candidates:
\* s >= 0.90 semantic_high, no review; 0.85 <= s < 0.90 semantic_medium, review
\* exactly when s - second < 0.10; 0.70 <= s < 0.85 semantic_low, review;
\* s < 0.70 no mapping and no insert.  Violated: a best candidate whose HTML
\* equals that of a consumed new page is not in unmatched_new_pages, and the
\* old page gets no mapping whatever s is.
C3_ConfidenceBands ==
    [][(Queried /\ Remaining # <<>>) =>
        LET s == TopSimilarity(Remaining) IN
        IF s < 70
        THEN AddedRows = {}
        ELSE \E r \in AddedRows :
                /\ AddedRows = {r}
                /\ r.old_url = StepOldPage.url
                /\ r.confidence_score = s
                /\ r.match_type = BandType(s)
                /\ r.needs_review = BandReview(s, Remaining)]_vars

\* C4: an old page without an existing mapping and with a stored embedding is
\* mapped to the not-yet-consumed new page of the highest similarity whenever
\* that similarity is >= MEDIUM_CONFIDENCE_THRESHOLD, and is left orphaned only
\* when no not-yet-consumed new page reaches the threshold.  Violated: see C3.
C4_BestUnconsumedChosen ==
    [][Queried =>
        IF Remaining # <<>> /\ TopSimilarity(Remaining) >= 70
        THEN \E r \in AddedRows :
                /\ AddedRows = {r}
                /\ r.old_url = StepOldPage.url
                /\ \E k \in DOMAIN Remaining :
                      /\ Remaining[k].url = r.new_url
                      /\ Remaining[k].similarity = TopSimilarity(Remaining)
        ELSE AddedRows = {}]_vars

\* the end-to-end scenario: old=[http://a.com/x.html], new=[http://b.com/x.html]
ScenarioInput ==
    [old |-> <<Url("a.com", "/x", ".html")>>,
     new |-> <<Url("b.com", "/x", ".html")>>,
     mappings |-> {}]

\* C5: a run started with the default stage list on the scenario ends with
\* exactly one persisted mapping, exact_url of confidence 1.0, and issues no
\* fetch at any point.  Violated: building the default list raises, so the run
\* ends with no mapping.
C5_DefaultRunScenario ==
    (stages_arg = None /\ run_input = ScenarioInput) =>
        /\ fetched = {}
        /\ run \in {"returned", "raised"} =>
              db_mappings = SetToBag({MappingRow(session_id,
                                                 Url("a.com", "/x", ".html"),
                                                 Url("b.com", "/x", ".html"),
                                                 100, "exact_url", FALSE)})

\* the URLs ExactUrlMatchStage put into an exact_url pair
PairedUrls ==
    {matched_pairs[i].old_url : i \in DOMAIN matched_pairs}
        \cup {matched_pairs[i].new_url : i \in DOMAIN matched_pairs}

\* ExactUrlMatchStage has returned and no later stage has
AfterExactUrlMatch ==
    /\ run = "running"
    /\ index > 0
    /\ stages[index] = "ExactUrlMatchStage"

\* C6: no URL of an exact_url pair is in the lists ExactUrlMatchStage returns,
\* and WebScraperStage fed with them fetches no such URL.
C6_MatchedUrlsNotFetched ==
    /\ AfterExactUrlMatch =>
          PairedUrls \cap (Range(state.old) \cup Range(state.new)) = {}
    /\ PairedUrls \cap fetched = {}

\* WebScraperStage has fetched after ExactUrlMatchStage paired URLs
C6_Witness ==
    /\ matched_pairs # <<>>
    /\ fetched # {}

\* HtmlPruneStage.execute has returned in a run of the stage alone
HtmlPruneReturned == stages = <<"HtmlPruneStage">> /\ index = 1

\* the returned mappings between two pages of HTML h
MappingsOf(h) ==
    {m \in state.mappings : m.old_page.html = h /\ m.new_page.html = h}

IsExactHtml(m) ==
    m.match_type = "exact_html" /\ m.confidence_score = 100 /\ m.needs_review = FALSE

\* the only page of a list with the HTML of its position i
OnlyHolder(pages, i) ==
    \A k \in DOMAIN pages : pages[k].html = pages[i].html => k = i

C10_ExactRowsConfidence ==
    \A r \in Rows :
        r.match_type \in {"exact_url", "exact_html"} =>
            r.confidence_score = 100 /\ r.needs_review = FALSE

\* an exact_html mapping has been persisted by PairingStage
C10_Witness ==
    \E r \in Rows : r.match_type = "exact_html"

\* WebScraperStage.execute has returned in a run of the stage alone
ScrapeReturned == stages = <<"WebScraperStage">> /\ index = 1

\* the fetch returned status 200
Is200(outcome) == outcome.kind = "response" /\ outcome.status = 200

\* page i of `pages` carries URL i of `urls`, for lists of the same length
SameUrls(pages, urls) ==
    /\ Len(pages) = Len(urls)
    /\ \A i \in DOMAIN urls : pages[i].url = urls[i]

AllTasks ==
    IF embed.pc = "idle" THEN {}
    ELSE Range(embed.old_tasks) \cup Range(embed.new_tasks)

\* the waits 1, 2, 4, ... after the first k failed attempts
Backoffs(k) == [j \in 1..k |-> 2 ^ (j - 1)]

\* what a task of the retry loop may have called and slept
RetryBounded(task) ==
    /\ task.calls <= 3
    /\ task.pc = "waiting" => task.calls = 0 /\ task.waits = <<>>
    /\ task.pc = "calling" => task.waits = Backoffs(task.calls - 1)
    /\ task.pc = "sleeping" => task.calls < 3 /\ task.waits = Backoffs(task.calls)
    /\ task.pc \in {"stored", "rejected"} => task.waits = Backoffs(task.calls - 1)
    /\ task.pc = "failed" => task.calls = 3 /\ task.waits = <<1, 2>>

\* a task that has finished calls and sleeps no more
FinishedTasksRest ==
    \A site \in {"old", "new"} :
        \A i \in (IF embed.pc = "idle" THEN {} ELSE DOMAIN SiteTasks(site)) :
            Finished(SiteTasks(site)[i]) => SiteTasks(site)'[i] = SiteTasks(site)[i]

\* every task that was started has finished
TasksFinished ==
    /\ embed.pc # "idle"
    /\ \A task \in AllTasks : task.pc = "waiting" \/ Finished(task)

\* C11: for any sequence of provider failures _generate_embedding_with_retry
\* calls the provider at most max_retries (3) times, stops at the first
\* success, waits 2^attempt seconds (1, 2) only between a failed attempt and
\* the next one, raises after the third failure without waiting again, and
\* always terminates.
C11_RetryBoundedAndTerminates ==
    /\ [](\A task \in AllTasks : RetryBounded(task))
    /\ [][FinishedTasksRest]_vars
    /\ (embed.pc = "gather") ~> TasksFinished

\* a task has raised after its third failed call
C11_Witness ==
    \E task \in AllTasks : task.pc = "failed" /\ task.calls = 3

\* EmbedStage.execute has returned
EmbedReturned == embed.pc = "done"

\* an embedding of page i of the site is stored
Embedded(site, i) ==
    EmbeddingRow(EmbedSession, SitePages(site)[i].url, site) \in db_embeddings

\* the positions of the tasks of a site
TaskIds(site) == IF embed.pc = "idle" THEN {} ELSE DOMAIN SiteTasks(site)

\* every attempt of some page has failed
SomePageFailed == \E task \in AllTasks : task.pc = "failed"

C14_RejectedWriteAbortsRun ==
    write_failures > 0 => run # "returned"

\* C15: every run started by run_pipeline leaves its migration session with
\* status completed or failed; the session is not pending once the run has
\* ended.  Violated: nothing in run_pipeline or the pipeline updates the status.
C15_SessionStatusSettled ==
    (stages_arg = None /\ run \in {"returned", "raised"}) =>
        session_status \in {"completed", "failed"}

\* C16: if the embedding provider credential is missing the run aborts before
\* any stage executes: no URL is fetched and no mapping or embedding is
\* persisted when the configuration error is raised.  Violated: the
\* credential is checked by EmbedStage.execute, after the URL stages and the
\* scraper have run.
C16_NoCredentialNoEffect ==
    (/\ ~ api_key
     /\ run = "raised"
     /\ index < Len(stages)
     /\ stages[index + 1] = "EmbedStage") =>
        /\ fetched = {}
        /\ db_mappings = EmptyBag
        /\ db_embeddings = {}

\* PairingStage.execute has returned
PairingReturned == pairing.pc = "done"

\* C17: each (old_url, new_url) pair is passed to insert_mapping at most once,
\* and the set PairingStage.execute returns has exactly one element per
\* insert_mapping call of that execute: the same pairs and the same count.
\* Violated: a Mapping equals any Mapping whose pages have the same HTML, so
\* all_mappings.add drops a mapping that was inserted.
C17_ReturnedSetIsPersisted ==
    PairingReturned =>
        /\ \A r, q \in Rows :
              (r.old_url = q.old_url /\ r.new_url = q.new_url) =>
                  (r = q /\ CopiesIn(r, db_mappings) = 1)
        /\ Cardinality(state.mappings) = BagCardinality(db_mappings)
        /\ {<<m.old_page.url, m.new_page.url>> : m \in state.mappings}
              = {<<r.old_url, r.new_url>> : r \in Rows}

\* page i of the site is a side of a mapping of the stage's input
InMapping(site, i) ==
    \E m \in state.mappings :
        IF site = "old" THEN m.old_page.url = state.old[i].url
        ELSE m.new_page.url = state.new[i].url

\* C18: EmbedStage calls the provider for, and stores an embedding of, only
\* pages that are not part of a mapping: the old or new side of an exact_html
\* mapping of its input causes no provider call and no insert_embedding.
\* Violated: execute hands every old and every new page to _process_pages.
C18_MappedPagesNotEmbedded ==
    \A site \in {"old", "new"} : \A i \in TaskIds(site) :
        InMapping(site, i) =>
            /\ SiteTasks(site)[i].calls = 0
            /\ ~ Embedded(site, i)

\* the provider calls in flight
InFlight ==
    Cardinality({<<site, i>> \in {"old", "new"} \X (TaskIds("old") \cup TaskIds("new")) :
                    i \in TaskIds(site) /\ SiteTasks(site)[i].pc = "calling"})

\* the batch (0, 1, ...) of position i of a list
BatchOf(i) == (i - 1) \div 10

\* C19: at every moment of EmbedStage.execute at most 10 provider calls are in
\* flight, a batch starts only after every page of the previous batch has
\* stored its embedding or been skipped, and all old pages are processed
\* before the first new page.
C19_BatchesBounded ==
    /\ InFlight <= 10
    /\ \A site \in {"old", "new"} : \A i, k \in TaskIds(site) :
          (BatchOf(i) < BatchOf(k) /\ SiteTasks(site)[k].pc # "waiting") =>
              Finished(SiteTasks(site)[i])
    /\ \A k \in TaskIds("new") :
          embed.new_tasks[k].pc # "waiting" =>
              \A i \in TaskIds("old") : Finished(embed.old_tasks[i])

\* the eleventh old page is being embedded after a first batch in which a
\* page was retried, and later a new page is
C19_Witness ==
    /\ embed.pc = "gather"
    /\ Len(state.old) = 11
    /\ embed.site = "new"
    /\ embed.new_tasks[1].pc = "calling"
    /\ \E i \in 1..10 : embed.old_tasks[i].calls = 2

\* the orderings of a list
Orderings(s) ==
    {t \in [1..Len(s) -> Range(s)] :
        \E f \in [1..Len(s) -> 1..Len(s)] :
            /\ \A i, k \in 1..Len(s) : f[i] = f[k] => i = k
            /\ \A i \in 1..Len(s) : t[i] = s[f[i]]}

\* the exact_url rows a run writes for the lists old_urls and new_urls
ExactUrlRowsFor(old_urls, new_urls) ==
    LET pruned == UrlPruneExecute([old |-> old_urls, new |-> new_urls, mappings |-> {}])
    IN BagToSet(ExactUrlRows(session_id, MatchedPairs(pruned.old, pruned.new)))

\* C20: the mappings of a run do not depend on the order of the input lists:
\* once ExactUrlMatchStage has returned, the rows written are the rows a run on
\* any reordering of the old list and of the new list writes.
C20_OrderIndependent ==
    AfterExactUrlMatch =>
        \A old_urls \in Orderings(run_input.old) :
            \A new_urls \in Orderings(run_input.new) :
                ExactUrlRowsFor(old_urls, new_urls) = Rows

\* the states Pipeline.iterate has yielded: one after each increment of
\* __index
Yielded == index

\* C21: Pipeline.iterate runs the stages one after another in list order, each
\* on the output of the one before, and yields one state after each: a run
\* that ends without an error has yielded as many states as the pipeline has
\* stages, 5 for the default pipeline when no stage can fail.  Violated: a
\* Pipeline built without a stages argument raises in its constructor and
\* yields nothing.
C21_OneStatePerStage ==
    /\ Yielded <= Len(stages)
    /\ run = "returned" => Yielded = Len(stages)
    /\ (stages_arg = None /\ api_key /\ run \in {"returned", "raised"}) => Yielded = 5

\* the old page at position j of unmatched_old_pages has no embedding stored
\* in the session
NoEmbeddingAt(j) ==
    ~ \E r \in db_embeddings :
        /\ r.session_id = session_id
        /\ r.site_type = "old"
        /\ r.url = pairing.unmatched_old_pages[j].url

\* the main loop of PairingStage.execute is at an old page without embedding
AtPageWithoutEmbedding ==
    /\ pairing.pc = "loop"
    /\ pairing.i <= Len(pairing.unmatched_old_pages)
    /\ NoEmbeddingAt(pairing.i)

\* the iteration for a page without embedding: no query, no insert, no error,
\* and the loop goes on to the next page
SkipStep ==
    (AtPageWithoutEmbedding /\ pairing' # pairing) =>
        /\ pairing'.pc = "loop"
        /\ pairing'.i = pairing.i + 1
        /\ pairing'.found = pairing.found
        /\ db_mappings' = db_mappings
        /\ run' = "running"

\* no row of url_mappings has a page without embedding as its old URL
SkippedUnmapped ==
    pairing.pc = "loop" =>
        \A j \in 1..Len(pairing.unmatched_old_pages) :
            NoEmbeddingAt(j) =>
                ~ \E r \in Rows : r.old_url = pairing.unmatched_old_pages[j].url

\* C22: an old page for which no embedding is stored in the session is
\* skipped by PairingStage without an error: no similarity query and no
\* insert_mapping is made for it, it ends unmapped, and the loop goes on to
\* the old pages after it.
C22_MissingEmbeddingSkipped == [][SkipStep]_vars /\ []SkippedUnmapped

\* a page without embedding was skipped and a page after it was mapped
C22_Witness ==
    /\ pairing.pc = "loop"
    /\ \E j, k \in 1..Len(pairing.unmatched_old_pages) :
          /\ j < k
          /\ k < pairing.i
          /\ NoEmbeddingAt(j)
          /\ \E r \in Rows :
                /\ r.old_url = pairing.unmatched_old_pages[k].url
                /\ r.match_type \in {"semantic_high", "semantic_medium", "semantic_low"}

\* UrlPruneStage.execute has returned in a run of the stage alone
UrlPruneReturned == stages = <<"UrlPruneStage">> /\ index = 1

\* the extension of the last segment of the URL's path: none when the last
\* dot of the path stands in a directory name
PathExtension(url) ==
    IF url.ext \in {".2/page", ".css/page"} THEN "" ELSE url.ext

\* the URL parses and its path extension is, in some spelling, in the blocklist
Blocklisted(url) ==
    /\ "malformed" \notin DOMAIN url
    /\ PathExtension(url) \in BLOCKED_EXTENSIONS \cup {".CSS", ".Png"}

\* the URL is the address of a page
PageUrl(url) ==
    /\ "malformed" \notin DOMAIN url
    /\ PathExtension(url) \in {"", ".html", ".htm"}

\* the order-preserving sublist of the URLs that are not blocklisted
NotBlocklisted(urls) ==
    LET Keep(url) == ~ Blocklisted(url) IN SelectSeq(urls, Keep)

\* C23: UrlPruneStage.execute returns, for each of the two lists, the
\* order-preserving sublist of the input without the URLs whose path extension
\* (compared case-insensitively, query and fragment ignored) is in the
\* blocklist; every URL with no extension or with .html/.htm is retained, a
\* malformed URL is retained, and no error is raised.
C23_BlocklistedUrlsRemoved ==
    /\ stages = <<"UrlPruneStage">> => run # "raised"
    /\ UrlPruneReturned =>
          /\ state.old = NotBlocklisted(run_input.old)
          /\ state.new = NotBlocklisted(run_input.new)
          /\ \A url \in Range(run_input.old) :
                (PageUrl(url) \/ url = MalformedUrl) => url \in Range(state.old)
          /\ \A url \in Range(run_input.new) :
                (PageUrl(url) \/ url = MalformedUrl) => url \in Range(state.new)

\* an asset spelled in capitals was removed and a page after it in the list,
\* with an asset name in its query string, was kept
C23_Witness ==
    /\ UrlPruneReturned
    /\ \E i, j \in 1..Len(run_input.old) :
          /\ i < j
          /\ run_input.old[i] = Url("a.com", "/s", ".CSS")
          /\ run_input.old[j] = UrlWith("a.com", "/y", "", "?f=a.css", "")
    /\ state.old = <<UrlWith("a.com", "/y", "", "?f=a.css", "")>>

SemanticTypes == {"semantic_high", "semantic_medium", "semantic_low"}

\* every row of url_mappings has one of the five match types and a confidence
\* in [0, 1], a semantic row one of at least MEDIUM_CONFIDENCE_THRESHOLD
RowsWellFormed ==
    \A r \in Rows :
        /\ r.match_type \in {"exact_url", "exact_html"} \cup SemanticTypes
        /\ r.confidence_score >= 0
        /\ r.confidence_score <= 100
        /\ r.match_type \in SemanticTypes =>
              r.confidence_score >= MEDIUM_CONFIDENCE_THRESHOLD

\* a row the main loop inserts is semantic and carries the similarity of the
\* candidate it maps to
RowFromCandidate ==
    Queried =>
        \A r \in AddedRows :
            /\ r.match_type \in SemanticTypes
            /\ \E k \in DOMAIN pairing'.found :
                  /\ pairing'.found[k].url = r.new_url
                  /\ pairing'.found[k].similarity = r.confidence_score

C25_OneSessionId ==
    /\ \A r \in db_embeddings : r.session_id = pipeline_session_id
    /\ \A r \in Rows : r.session_id = pipeline_session_id

\* C26: each new URL is the new_url of at most one exact_url pair emitted by
\* ExactUrlMatchStage.execute, whatever the two lists hold.  Violated: every
\* old URL whose path is a key of new_url_map is paired with the new URL of
\* that path, so two old URLs of one path share it.
C26_NewUrlPairedOnce ==
    \A i, j \in DOMAIN matched_pairs :
        matched_pairs[i].new_url = matched_pairs[j].new_url => i = j

\* the lists ExactUrlMatchStage.execute received in a run of the six stages
ExactUrlMatchInput == UrlPruneExecute(run_input)

\* C27: ExactUrlMatchStage loses no URL: every old URL and every new URL of
\* its input is in the list the stage returns or is a side of an exact_url
\* mapping the stage has persisted.  Violated: of several new URLs of one
\* matched path only the last is paired, and all of them are removed.
C27_NoUrlLost ==
    AfterExactUrlMatch =>
        /\ \A url \in Range(ExactUrlMatchInput.old) :
              url \in Range(state.old) \/ \E r \in Rows : r.old_url = url
        /\ \A url \in Range(ExactUrlMatchInput.new) :
              url \in Range(state.new) \/ \E r \in Rows : r.new_url = url

\* C28: for a semantic_medium mapping needs_review is true exactly when the
\* old page has at least two remaining candidates (the similarity result
\* without the consumed new pages) and the top score minus the second-highest
\* remaining score is < AMBIGUITY_GAP_THRESHOLD.  Violated: a consumed new
\* page whose HTML equals that of a new page consumed before it is not in
\* matched_new_pages, stays in the similarity result and counts as the
\* second candidate.
C28_ReviewWhenAmbiguous ==
    [][Queried =>
        \A r \in AddedRows :
            r.match_type = "semantic_medium" =>
                (r.needs_review <=>
                    /\ Len(Remaining) >= 2
                    /\ r.confidence_score - SecondSimilarity(Remaining)
                           < AMBIGUITY_GAP_THRESHOLD)]_vars

\* BlogPruneStage.execute has returned in a run of the stage alone
BlogPruneReturned == stages = <<"BlogPruneStage">> /\ index = 1

\* the URL lies under a /blog/, /blogs/ or /news/ directory
UnderBlogDirectory(url) ==
    \E i \in DOMAIN url.dirs : url.dirs[i] \in {"blog", "blogs", "news", "Blog"}

\* an individual post: a .html/.htm file other than index.html under a blog
\* directory, or a dated path under one
IndividualPost(url) ==
    /\ UnderBlogDirectory(url)
    /\ \/ /\ url.ext \in {".html", ".htm"}
          /\ ~ (url.file = "index" /\ url.ext = ".html")
       \/ url.file = "2024-01-post"

\* the order-preserving sublist of the URLs that are no individual posts
WithoutPosts(urls) ==
    LET Keep(url) == ~ IndividualPost(url) IN SelectSeq(urls, Keep)

\* C29: BlogPruneStage.execute removes from the old list exactly the
\* individual posts (any .html/.htm file other than index.html under a /blog/,
\* /blogs/ or /news/ directory, and any dated path under one), keeps the
\* landing pages and their index.html, preserves the order of the kept old
\* URLs and returns the new list unchanged.  Violated: a post without a date
\* under /blogs/ is kept, the code tests '/blog/' and '/news/' only.
C29_PostsRemoved ==
    BlogPruneReturned =>
        /\ state.old = WithoutPosts(run_input.old)
        /\ state.new = run_input.new

\* the step is the return of `stage`
Returns(stage) ==
    /\ index' = index + 1
    /\ stages[index'] = stage

\* the two page lists are handed on as they were received
ListsUnchanged == state'.old = state.old /\ state'.new = state.new

\* C30: HtmlPruneStage, EmbedStage and PairingStage each return the old-page
\* list and the new-page list they received, with the same elements in the
\* same order; EmbedStage also returns the mapping set unchanged, and the
\* mapping set PairingStage returns is a superset of the one it received.
C30_PageListsPassedOn ==
    [][/\ Returns("HtmlPruneStage") => ListsUnchanged
       /\ Returns("EmbedStage") => ListsUnchanged /\ state'.mappings = state.mappings
       /\ Returns("PairingStage") => ListsUnchanged /\ state.mappings \subseteq state'.mappings
      ]_vars

\* the three stages have returned lists that hold a page too short for
\* HtmlPruneStage, with an exact_html mapping and a semantic one
C30_Witness ==
    /\ stages = PageStages
    /\ index = 3
    /\ state.old = run_input.old
    /\ state.new = run_input.new
    /\ \E p \in Range(state.old) : ~ ValidPage(p)
    /\ \E m \in state.mappings : m.match_type = "exact_html"
    /\ \E m \in state.mappings : m.match_type \in SemanticTypes

====
